---- MODULE Spec2Model ----
(***************************************************************************)
(* Model of the fracture-reduction questionnaire (streamlit_app.py): the   *)
(* per-session page sequence home -> ranking -> points -> likert ->        *)
(* results with its validation gates, and the shared CSV log that          *)
(* save_submission_to_csv appends to.                                      *)
(***************************************************************************)
EXTENDS Integers, Sequences, FiniteSets, TLC

\* ------------------------------------------------------------------ bounds
NSessions == 2          \* browser sessions sharing the CSV file
MaxSubmissions == 2     \* uuid4() values drawn over a behaviour
MaxClock == 1           \* utcnow() takes the values 0..MaxClock
MaxRankProbe == 6       \* validate_ranks is applied to lists over None, 0..MaxRankProbe

\* ------------------------------------------------------------------ config
\* PARAMETERS (labels shortened); the list is ordered.
PARAMETERS == <<"Time taken", "Positioning", "Rotation", "Number of moves", "Order of moves">>

NParams == Len(PARAMETERS)
Params == {PARAMETERS[i] : i \in 1..NParams}
Sessions == 1..NSessions

\* Python's None, for a value that is absent.
None == -1

\* fieldnames of the csv.DictWriter: the header row of the file.
fieldnames == <<"submission_id", "timestamp_utc", "parameter_label", "rank", "points", "likert">>

\* Widget defaults set when a key is missing from st.session_state.
DefaultRank == [p \in Params |-> 1]
DefaultPoints == [p \in Params |-> 0]
DefaultLikert == [p \in Params |-> 4]

\* ------------------------------------------------------------------ numbers
\* A points value may be an int or a float: numbers are fixed-point, in units of
\* 1/Scale, so that 20.4999 is 204999.
Scale == 10 * 10 * 10 * 10
Num(n) == n * Scale

\* int(x): TypeError on None, else truncation toward zero.
\* IntFails(x) is the exception, PyInt(x) the value.
IntFails(x) == x = None
PyInt(x) == IF x >= 0 THEN x \div Scale ELSE -((-x) \div Scale)

\* round(x) of Python 3: to the nearest integer, ties to the even one.
PyRound(x) ==
    LET fl == x \div Scale
        rem == x - fl * Scale
    IN  IF 2 * rem < Scale THEN fl
        ELSE IF 2 * rem > Scale THEN fl + 1
        ELSE IF fl % 2 = 0 THEN fl ELSE fl + 1

RECURSIVE SumSeq(_)
SumSeq(q) == IF q = <<>> THEN 0 ELSE Head(q) + SumSeq(Tail(q))

\* list(d.values()) of a dict built by iterating PARAMETERS: PARAMETERS order.
Values(d) == [i \in 1..NParams |-> d[PARAMETERS[i]]]

Elems(q) == {q[i] : i \in 1..Len(q)}

\* ------------------------------------------------------------------ validation
\* A validator returns a message, or "" for Python's None (both are falsy in `if err:`).
\* validate_ranks_no_cover is validate_ranks without the comparison with
\* set([1,2,3,4,5]).
validate_ranks_no_cover(ranks) ==
    IF \E i \in 1..Len(ranks) : ranks[i] = None
    THEN "Please assign all rankings (1-5)."
    ELSE IF Cardinality(Elems(ranks)) # Len(ranks)
    THEN "Rankings must be unique: assign 1..5 without repetitions."
    ELSE ""

validate_ranks(ranks) ==
    IF \E i \in 1..Len(ranks) : ranks[i] = None
    THEN "Please assign all rankings (1-5)."
    ELSE IF Cardinality(Elems(ranks)) # Len(ranks)
    THEN "Rankings must be unique: assign 1..5 without repetitions."
    ELSE IF Elems(ranks) # {1, 2, 3, 4, 5}
    THEN "Rankings must cover exactly the values 1,2,3,4,5."
    ELSE ""

\* validate_points_round_sum rounds the sum where validate_points truncates each value.
validate_points_round_sum(points) ==
    IF \E i \in 1..Len(points) : IntFails(points[i])
    THEN "Error in points: use valid integers."
    ELSE LET total == PyRound(SumSeq(points))
         IN  IF total # 100
             THEN "The sum of points must be 100 (now: " \o ToString(total) \o ")."
             ELSE ""

validate_points(points) ==
    IF \E i \in 1..Len(points) : IntFails(points[i])
    THEN "Error in points: use valid integers."
    ELSE LET pints == [i \in 1..Len(points) |-> PyInt(points[i])]
             total == SumSeq(pints)
         IN  IF total # 100
             THEN "The sum of points must be 100 (now: " \o ToString(total) \o ")."
             ELSE ""

\* ------------------------------------------------------------------ state
VARIABLES
    page,          \* st.session_state.page, per session
    submitted,     \* st.session_state.submitted
    error,         \* st.session_state.error
    rank_,         \* the widget keys rank_<label>: Params -> value
    points_,       \* the widget keys points_<label>
    likert_,       \* the widget keys likert_<label>
    saved_ranks,   \* st.session_state["saved_ranks"]: <<>> when the key is absent, else <<dict>>
    saved_points,  \* st.session_state["saved_points"], likewise
    results,       \* st.session_state.results: <<>> when absent, else the list of result dicts
    pc,            \* where the session's script run is: "idle", or inside save_submission_to_csv
    batch,         \* local `results` of show_likert while save_submission_to_csv runs
    write_header,  \* local write_header of save_submission_to_csv
    buf,           \* rows written to the open file object and not yet flushed
    file_exists,   \* os.path.isfile(RESPONSES_CSV)
    log,           \* the rows of RESPONSES_CSV
    nextId,        \* the number of uuid4() values drawn so far, plus one
    clock,         \* the last value utcnow() returned
    lost,          \* history: the batch of the session's last failed save, <<>> if none
    call,          \* history: the last direct call of a validator, with its result
    admin          \* what the last run of show_admin displayed

sessionVars == <<page, submitted, error, rank_, points_, likert_, saved_ranks, saved_points, results>>
saveVars == <<pc, batch, write_header, buf>>
storeVars == <<file_exists, log, nextId, clock>>
vars == <<sessionVars, saveVars, storeVars, lost, call, admin>>

NoCall == [fn |-> "", arg |-> <<>>, ret |-> ""]
NoView == [view |-> "", rows |-> <<>>]

\* Session start: the module-level initialisation, the file not yet created.
Init ==
    /\ page = [s \in Sessions |-> "home"]
    /\ submitted = [s \in Sessions |-> FALSE]
    /\ error = [s \in Sessions |-> ""]
    /\ rank_ = [s \in Sessions |-> DefaultRank]
    /\ points_ = [s \in Sessions |-> DefaultPoints]
    /\ likert_ = [s \in Sessions |-> DefaultLikert]
    /\ saved_ranks = [s \in Sessions |-> <<>>]
    /\ saved_points = [s \in Sessions |-> <<>>]
    /\ results = [s \in Sessions |-> <<>>]
    /\ pc = [s \in Sessions |-> "idle"]
    /\ batch = [s \in Sessions |-> <<>>]
    /\ write_header = [s \in Sessions |-> FALSE]
    /\ buf = [s \in Sessions |-> <<>>]
    /\ file_exists = FALSE
    /\ log = <<>>
    /\ nextId = 1
    /\ clock = 0
    /\ lost = [s \in Sessions |-> <<>>]
    /\ call = NoCall
    /\ admin = NoView

\* ------------------------------------------------------------------ inputs
\* What the widgets can deliver: a selectbox over [1,2,3,4,5], a number_input of
\* ints in 0..100 and a slider over 1..7.
Identity == [p \in Params |-> CHOOSE i \in 1..NParams : PARAMETERS[i] = p]
Reversed == [p \in Params |-> NParams + 1 - Identity[p]]
RankInputs == {DefaultRank, Identity, [Identity EXCEPT !["Rotation"] = 4]}

Even == [p \in Params |-> 20]
PointInputs == {DefaultPoints, Even, [Even EXCEPT !["Rotation"] = 19]}

\* The lists the validators are called with directly: ranks over None and
\* 0..MaxRankProbe, points over None, ints and floats (fixed-point).
RankLists == [1..NParams -> {None} \cup 0..MaxRankProbe]
PointProbe == {None, Num(0), Num(19), Num(20), 204999, 205001, 204000, 184000, -5000}
PointLists == [1..NParams -> PointProbe]

LikertInputs == {DefaultLikert, [DefaultLikert EXCEPT !["Time taken"] = 7]}

\* The exceptions open() and the flush on close raise when the medium fails.
OpenErrors == {"[Errno 13] Permission denied: 'submissions_new.csv'"}
WriteErrors == {"[Errno 28] No space left on device"}

\* ------------------------------------------------------------------ pages
\* Lines 36-46, run at the top of every script run: a widget key that is missing is
\* set to its default. Streamlit drops the keys of the widgets that the previous run
\* did not draw, so the keys of the pages other than the current one return to
\* their defaults.
init_widgets(s) ==
    /\ pc[s] = "idle"
    /\ rank_' = [rank_ EXCEPT ![s] = IF page[s] = "ranking" THEN @ ELSE DefaultRank]
    /\ points_' = [points_ EXCEPT ![s] = IF page[s] = "points" THEN @ ELSE DefaultPoints]
    /\ likert_' = [likert_ EXCEPT ![s] = IF page[s] = "likert" THEN @ ELSE DefaultLikert]
    /\ <<rank_', points_', likert_'>> # <<rank_, points_, likert_>>
    /\ UNCHANGED <<page, submitted, error, saved_ranks, saved_points, results>>
    /\ UNCHANGED <<saveVars, storeVars, lost, call, admin>>

\* show_home_skip is show_home going past the ranking page.
show_home_skip(s) ==
    /\ pc[s] = "idle"
    /\ page[s] = "home"
    /\ page' = [page EXCEPT ![s] = "points"]
    /\ UNCHANGED <<submitted, error, rank_, points_, likert_, saved_ranks, saved_points, results>>
    /\ UNCHANGED <<saveVars, storeVars, lost, call, admin>>

\* The Start button.
show_home(s) ==
    /\ pc[s] = "idle"
    /\ page[s] = "home"
    /\ page' = [page EXCEPT ![s] = "ranking"]
    /\ UNCHANGED <<submitted, error, rank_, points_, likert_, saved_ranks, saved_points, results>>
    /\ UNCHANGED <<saveVars, storeVars, lost, call, admin>>

\* show_ranking_no_snapshot is show_ranking without the assignment of saved_ranks.
show_ranking_no_snapshot(s, r) ==
    /\ pc[s] = "idle"
    /\ page[s] = "ranking"
    /\ rank_' = [rank_ EXCEPT ![s] = r]
    /\ LET err == validate_ranks(Values(r))
       IN  IF err # ""
           THEN /\ error' = [error EXCEPT ![s] = err]
                /\ UNCHANGED page
           ELSE /\ error' = [error EXCEPT ![s] = ""]
                /\ page' = [page EXCEPT ![s] = "points"]
    /\ UNCHANGED <<submitted, points_, likert_, saved_ranks, saved_points, results>>
    /\ UNCHANGED <<saveVars, storeVars, lost, call, admin>>

\* The ranking form submitted with the selections r.
show_ranking(s, r) ==
    /\ pc[s] = "idle"
    /\ page[s] = "ranking"
    /\ rank_' = [rank_ EXCEPT ![s] = r]
    /\ LET ranks == [p \in Params |-> r[p]]
           err == validate_ranks(Values(ranks))
       IN  IF err # ""
           THEN /\ error' = [error EXCEPT ![s] = err]
                /\ UNCHANGED <<saved_ranks, page>>
           ELSE /\ saved_ranks' = [saved_ranks EXCEPT ![s] = <<ranks>>]
                /\ error' = [error EXCEPT ![s] = ""]
                /\ page' = [page EXCEPT ![s] = "points"]
    /\ UNCHANGED <<submitted, points_, likert_, saved_points, results>>
    /\ UNCHANGED <<saveVars, storeVars, lost, call, admin>>

\* show_points_saves_first is show_points keeping the snapshot before it validates.
show_points_saves_first(s, pt) ==
    /\ pc[s] = "idle"
    /\ page[s] = "points"
    /\ points_' = [points_ EXCEPT ![s] = pt]
    /\ saved_points' = [saved_points EXCEPT ![s] = <<[p \in Params |-> pt[p]]>>]
    /\ LET err == validate_points([i \in 1..NParams |-> Num(Values(pt)[i])])
       IN  IF err # ""
           THEN /\ error' = [error EXCEPT ![s] = err]
                /\ UNCHANGED page
           ELSE /\ error' = [error EXCEPT ![s] = ""]
                /\ page' = [page EXCEPT ![s] = "likert"]
    /\ UNCHANGED <<submitted, rank_, likert_, saved_ranks, results>>
    /\ UNCHANGED <<saveVars, storeVars, lost, call, admin>>

\* The points form submitted with the values pt.
show_points(s, pt) ==
    /\ pc[s] = "idle"
    /\ page[s] = "points"
    /\ points_' = [points_ EXCEPT ![s] = pt]
    /\ LET points_map == [p \in Params |-> pt[p]]
           err == validate_points([i \in 1..NParams |-> Num(Values(points_map)[i])])
       IN  IF err # ""
           THEN /\ error' = [error EXCEPT ![s] = err]
                /\ UNCHANGED <<saved_points, page>>
           ELSE /\ saved_points' = [saved_points EXCEPT ![s] = <<points_map>>]
                /\ error' = [error EXCEPT ![s] = ""]
                /\ page' = [page EXCEPT ![s] = "likert"]
    /\ UNCHANGED <<submitted, rank_, likert_, saved_ranks, results>>
    /\ UNCHANGED <<saveVars, storeVars, lost, call, admin>>

\* reset_all_keeps_snapshots is reset_all without the deletion of saved_ranks and
\* saved_points.
reset_all_keeps_snapshots(s) ==
    /\ pc[s] = "idle"
    /\ submitted' = [submitted EXCEPT ![s] = FALSE]
    /\ error' = [error EXCEPT ![s] = ""]
    /\ page' = [page EXCEPT ![s] = "home"]
    /\ rank_' = [rank_ EXCEPT ![s] = DefaultRank]
    /\ points_' = [points_ EXCEPT ![s] = DefaultPoints]
    /\ likert_' = [likert_ EXCEPT ![s] = DefaultLikert]
    /\ lost' = [lost EXCEPT ![s] = <<>>]
    /\ UNCHANGED <<saved_ranks, saved_points, results, saveVars, storeVars, call, admin>>

\* reset_all_keeps_page is reset_all without the return to the home page.
reset_all_keeps_page(s) ==
    /\ pc[s] = "idle"
    /\ saved_ranks' = [saved_ranks EXCEPT ![s] = <<>>]
    /\ saved_points' = [saved_points EXCEPT ![s] = <<>>]
    /\ submitted' = [submitted EXCEPT ![s] = FALSE]
    /\ error' = [error EXCEPT ![s] = ""]
    /\ rank_' = [rank_ EXCEPT ![s] = DefaultRank]
    /\ points_' = [points_ EXCEPT ![s] = DefaultPoints]
    /\ likert_' = [likert_ EXCEPT ![s] = DefaultLikert]
    /\ lost' = [lost EXCEPT ![s] = <<>>]
    /\ UNCHANGED <<page, results, saveVars, storeVars, call, admin>>

\* reset_all(): the widget keys and the saved snapshots deleted, the flags cleared,
\* the widget keys set to their defaults again. st.session_state.results is kept.
reset_all(s) ==
    /\ pc[s] = "idle"
    /\ saved_ranks' = [saved_ranks EXCEPT ![s] = <<>>]
    /\ saved_points' = [saved_points EXCEPT ![s] = <<>>]
    /\ submitted' = [submitted EXCEPT ![s] = FALSE]
    /\ error' = [error EXCEPT ![s] = ""]
    /\ page' = [page EXCEPT ![s] = "home"]
    /\ rank_' = [rank_ EXCEPT ![s] = DefaultRank]
    /\ points_' = [points_ EXCEPT ![s] = DefaultPoints]
    /\ likert_' = [likert_ EXCEPT ![s] = DefaultLikert]
    /\ lost' = [lost EXCEPT ![s] = <<>>]
    /\ UNCHANGED <<results, saveVars, storeVars, call, admin>>

\* ------------------------------------------------------------------ store
\* str(uuid.uuid4()) and datetime.utcnow().isoformat() + "Z".
uuid_str(n) == "uuid-" \o ToString(n)
iso_z(c) == "T" \o ToString(c) \o "Z"

\* The row that writer.writerow(row) writes: the values in fieldnames order, each
\* written as its str().
csv_row(submission_id, ts, r) ==
    <<submission_id, ts, r.parameter_label, ToString(r.rank), ToString(r.points), ToString(r.likert)>>

\* csv_rows_uuid_per_row is csv_rows drawing a uuid4() for each row.
csv_rows_uuid_per_row(wh, submission_id, ts, res) ==
    (IF wh THEN <<fieldnames>> ELSE <<>>) \o
        [i \in 1..Len(res) |-> csv_row(submission_id \o "-" \o ToString(i), ts, res[i])]

\* What save_submission_to_csv writes to the file object, in order.
csv_rows(wh, submission_id, ts, res) ==
    (IF wh THEN <<fieldnames>> ELSE <<>>) \o [i \in 1..Len(res) |-> csv_row(submission_id, ts, res[i])]

\* save_submission_to_csv once open() has succeeded: mode "a" creates the file; the
\* header (if write_header), then one row per result under one uuid4() and one
\* utcnow(), go to the file object, whose buffer holds them until it is closed.
save_write(s) ==
    /\ file_exists' = TRUE
    /\ nextId' = nextId + 1
    /\ \E now \in clock..MaxClock :
          /\ clock' = now
          /\ buf' = [buf EXCEPT ![s] = csv_rows(write_header[s], uuid_str(nextId), iso_z(now), batch[s])]
    /\ pc' = [pc EXCEPT ![s] = "close"]
    /\ UNCHANGED <<log, batch, write_header, lost, sessionVars>>

\* save_failed_marks_submitted is save_failed going on to the results page.
save_failed_marks_submitted(s, e) ==
    /\ error' = [error EXCEPT ![s] = "Failed to save submission: " \o e]
    /\ lost' = [lost EXCEPT ![s] = batch[s]]
    /\ pc' = [pc EXCEPT ![s] = "idle"]
    /\ batch' = [batch EXCEPT ![s] = <<>>]
    /\ write_header' = [write_header EXCEPT ![s] = FALSE]
    /\ buf' = [buf EXCEPT ![s] = <<>>]
    /\ submitted' = [submitted EXCEPT ![s] = TRUE]
    /\ page' = [page EXCEPT ![s] = "results"]
    /\ UNCHANGED <<rank_, points_, likert_, saved_ranks, saved_points, results>>

\* `except Exception as e` around save_submission_to_csv in show_likert.
save_failed(s, e) ==
    /\ error' = [error EXCEPT ![s] = "Failed to save submission: " \o e]
    /\ lost' = [lost EXCEPT ![s] = batch[s]]
    /\ pc' = [pc EXCEPT ![s] = "idle"]
    /\ batch' = [batch EXCEPT ![s] = <<>>]
    /\ write_header' = [write_header EXCEPT ![s] = FALSE]
    /\ buf' = [buf EXCEPT ![s] = <<>>]
    /\ UNCHANGED <<page, submitted, rank_, points_, likert_, saved_ranks, saved_points, results>>

\* save_done_keeps_error is save_done without the clearing of the error.
save_done_keeps_error(s) ==
    /\ results' = [results EXCEPT ![s] = batch[s]]
    /\ submitted' = [submitted EXCEPT ![s] = TRUE]
    /\ page' = [page EXCEPT ![s] = "results"]
    /\ pc' = [pc EXCEPT ![s] = "idle"]
    /\ batch' = [batch EXCEPT ![s] = <<>>]
    /\ write_header' = [write_header EXCEPT ![s] = FALSE]
    /\ buf' = [buf EXCEPT ![s] = <<>>]
    /\ UNCHANGED <<error, rank_, points_, likert_, saved_ranks, saved_points, lost>>

\* save_done_stays is save_done without the move to the results page.
save_done_stays(s) ==
    /\ results' = [results EXCEPT ![s] = batch[s]]
    /\ submitted' = [submitted EXCEPT ![s] = TRUE]
    /\ error' = [error EXCEPT ![s] = ""]
    /\ pc' = [pc EXCEPT ![s] = "idle"]
    /\ batch' = [batch EXCEPT ![s] = <<>>]
    /\ write_header' = [write_header EXCEPT ![s] = FALSE]
    /\ buf' = [buf EXCEPT ![s] = <<>>]
    /\ UNCHANGED <<page, rank_, points_, likert_, saved_ranks, saved_points, lost>>

\* show_likert after save_submission_to_csv has returned.
save_done(s) ==
    /\ results' = [results EXCEPT ![s] = batch[s]]
    /\ submitted' = [submitted EXCEPT ![s] = TRUE]
    /\ error' = [error EXCEPT ![s] = ""]
    /\ page' = [page EXCEPT ![s] = "results"]
    /\ pc' = [pc EXCEPT ![s] = "idle"]
    /\ batch' = [batch EXCEPT ![s] = <<>>]
    /\ write_header' = [write_header EXCEPT ![s] = FALSE]
    /\ buf' = [buf EXCEPT ![s] = <<>>]
    /\ UNCHANGED <<rank_, points_, likert_, saved_ranks, saved_points, lost>>

\* open(RESPONSES_CSV, mode="a"): it raises, or the body of the `with` runs.
save_open(s) ==
    /\ pc[s] = "open"
    /\ \/ /\ \E e \in OpenErrors : save_failed(s, e)
          /\ UNCHANGED storeVars
       \/ save_write(s)
    /\ UNCHANGED <<call, admin>>

\* save_close_overwrites is save_close on a file opened in mode "w".
save_close_overwrites(s) ==
    /\ pc[s] = "close"
    /\ \/ \E k \in 0..(Len(buf[s]) - 1), e \in WriteErrors :
             /\ log' = SubSeq(buf[s], 1, k)
             /\ save_failed(s, e)
       \/ /\ log' = buf[s]
          /\ save_done(s)
    /\ UNCHANGED <<file_exists, nextId, clock, call, admin>>

\* Leaving the `with`: the file object is closed and its buffer flushed in one
\* append to the file. When the medium fails, a prefix of the buffer (k rows) has
\* reached the file and the flush raises; nothing removes that prefix.
save_close(s) ==
    /\ pc[s] = "close"
    /\ \/ \E k \in 0..(Len(buf[s]) - 1), e \in WriteErrors :
             /\ log' = log \o SubSeq(buf[s], 1, k)
             /\ save_failed(s, e)
       \/ /\ log' = log \o buf[s]
          /\ save_done(s)
    /\ UNCHANGED <<file_exists, nextId, clock, call, admin>>

\* needs_header_isfile_only is needs_header without the os.path.getsize() test.
needs_header_isfile_only == ~file_exists

\* write_header of save_submission_to_csv: the file is missing or has size 0.
needs_header == (~file_exists) \/ log = <<>>

\* The likert form submitted with the slider values l.
show_likert(s, l) ==
    /\ pc[s] = "idle"
    /\ page[s] = "likert"
    /\ nextId + Cardinality({t \in Sessions : pc[t] # "idle"}) <= MaxSubmissions
    /\ likert_' = [likert_ EXCEPT ![s] = l]
    /\ LET snapshot == [p \in Params |->
               [rank_value |-> IF saved_ranks[s] # <<>> THEN saved_ranks[s][1][p] ELSE rank_[s][p],
                points_value |-> IF saved_points[s] # <<>> THEN saved_points[s][1][p] ELSE points_[s][p],
                likert_value |-> l[p]]]
           res == [i \in 1..NParams |->
               [parameter_label |-> PARAMETERS[i],
                rank |-> snapshot[PARAMETERS[i]].rank_value,
                points |-> snapshot[PARAMETERS[i]].points_value,
                likert |-> snapshot[PARAMETERS[i]].likert_value]]
       IN  IF \E p \in Params : snapshot[p].likert_value = None
           THEN /\ error' = [error EXCEPT ![s] = "Please complete all Likert ratings."]
                /\ UNCHANGED <<saveVars>>
           ELSE IF \E p \in Params : snapshot[p].rank_value = None \/ snapshot[p].points_value = None
           THEN /\ error' = [error EXCEPT ![s] = "Error preparing results: int() argument must be a string, a bytes-like object or a real number, not 'NoneType'"]
                /\ UNCHANGED <<saveVars>>
           ELSE \* save_submission_to_csv(results) starts: isfile() and getsize()
                /\ batch' = [batch EXCEPT ![s] = res]
                /\ write_header' = [write_header EXCEPT ![s] = needs_header]
                /\ pc' = [pc EXCEPT ![s] = "open"]
                /\ UNCHANGED <<error, buf>>
    /\ UNCHANGED <<page, submitted, rank_, points_, saved_ranks, saved_points, results>>
    /\ UNCHANGED <<storeVars, lost, call, admin>>

\* ------------------------------------------------------------------ specifications
\* The "Return to questionnaire" button the router draws for page = "results"
\* without submitted. It is no disjunct of Step: NoReturnButton states that its
\* guard holds in no reachable state.
return_to_questionnaire(s) ==
    /\ pc[s] = "idle"
    /\ page[s] = "results"
    /\ ~submitted[s]
    /\ page' = [page EXCEPT ![s] = "ranking"]
    /\ UNCHANGED <<submitted, error, rank_, points_, likert_, saved_ranks, saved_points, results>>
    /\ UNCHANGED <<saveVars, storeVars, lost, call, admin>>

\* A value read from the file: csv.reader yields every cell as a str. A Python
\* value is modelled with its type, so that "3" and 3 differ.
py_str(x) == [type |-> "str", value |-> x]
py_int(n) == [type |-> "int", value |-> ToString(n)]

\* list(csv.DictReader(f)): the first row of the file gives the keys, every later
\* row is a dict from those keys to the cells of the row.
DictReader(q) ==
    IF q = <<>> THEN <<>>
    ELSE [i \in 1..(Len(q) - 1) |->
            [name \in Elems(q[1]) |->
                py_str(q[i + 1][CHOOSE j \in 1..Len(q[1]) : q[1][j] = name])]]

\* show_admin (the script run with ?admin=1): the rows of the file displayed, or
\* "No submissions yet." when the file is missing or holds no data row.
show_admin ==
    /\ admin' =
          IF ~file_exists THEN [view |-> "No submissions yet.", rows |-> <<>>]
          ELSE LET rows == DictReader(log)
               IN  IF rows = <<>> THEN [view |-> "No submissions yet.", rows |-> <<>>]
                   ELSE [view |-> "Total rows: " \o ToString(Len(rows)), rows |-> rows]
    /\ UNCHANGED <<sessionVars, saveVars, storeVars, lost, call>>

\* A direct call of a validator, on any list; one call in a behaviour.
validate_ranks_call ==
    /\ call = NoCall
    /\ \E a \in RankLists : call' = [fn |-> "validate_ranks", arg |-> a, ret |-> validate_ranks(a)]
    /\ UNCHANGED <<sessionVars, saveVars, storeVars, lost, admin>>

validate_points_call ==
    /\ call = NoCall
    /\ \E a \in PointLists : call' = [fn |-> "validate_points", arg |-> a, ret |-> validate_points(a)]
    /\ UNCHANGED <<sessionVars, saveVars, storeVars, lost, admin>>

\* ------------------------------------------------------------------ specifications
\* One script run of session s, the forms delivering values from RI, PI and LI.
Step(s, RI, PI, LI) ==
    \/ init_widgets(s)
    \/ show_home(s)
    \/ \E r \in RI : show_ranking(s, r)
    \/ \E pt \in PI : show_points(s, pt)
    \/ \E l \in LI : show_likert(s, l)
    \/ save_open(s)
    \/ save_close(s)
    \/ reset_all(s)

\* One participant: session 1 alone uses the application.
Next == Step(1, RankInputs, PointInputs, LikertInputs)
Spec == Init /\ [][Next]_vars

\* One participant, the likert form called also with a rating that is unset (the
\* slider itself always delivers a value).
UnsetLikert == [DefaultLikert EXCEPT !["Rotation"] = None]
NextUnset == Step(1, RankInputs, PointInputs, LikertInputs \cup {UnsetLikert})
SpecUnset == Init /\ [][NextUnset]_vars

\* One participant, and the administrator looking at the responses at any time.
NextAdmin ==
    \/ Step(1, RankInputs, PointInputs, LikertInputs)
    \/ show_admin
SpecAdmin == Init /\ [][NextAdmin]_vars

\* Several participants at once, their script runs interleaved.
NextShared == \E s \in Sessions : Step(s, {DefaultRank, Identity}, {DefaultPoints, Even}, {DefaultLikert})
SpecShared == Init /\ [][NextShared]_vars

\* The ranking step of one participant, beside direct calls of validate_ranks.
NextRanks ==
    \/ validate_ranks_call
    \/ show_home(1)
    \/ \E r \in RankInputs : show_ranking(1, r)
    \/ reset_all(1)
SpecRanks == Init /\ [][NextRanks]_vars

\* The ranking and points steps of one participant, beside direct calls of
\* validate_points.
NextPoints ==
    \/ validate_points_call
    \/ show_home(1)
    \/ show_ranking(1, Identity)
    \/ \E pt \in PointInputs : show_points(1, pt)
    \/ reset_all(1)
SpecPoints == Init /\ [][NextPoints]_vars

\* ------------------------------------------------------------------ claims
\* The list q assigns each of 1..NParams exactly once.
IsPermutation(q) ==
    /\ Len(q) = NParams
    /\ \A v \in 1..NParams : Cardinality({i \in 1..Len(q) : q[i] = v}) = 1

\* The router never reaches its branch for page = "results" without submitted.
NoReturnButton(s) == ~(page[s] = "results" /\ ~submitted[s])

\* C1: the page of a session changes only along home -> ranking (Start),
\* ranking -> points (a valid ranking), points -> likert (valid points),
\* likert -> results (the batch appended to the store), and to home by reset_all;
\* on page results the only button that could change the page is never drawn.
C1_PageEdges ==
    [][\A s \in Sessions :
        /\ NoReturnButton(s)
        /\ page'[s] # page[s] =>
            \/ /\ page[s] = "home" /\ page'[s] = "ranking"
               /\ show_home(s)
            \/ /\ page[s] = "ranking" /\ page'[s] = "points"
               /\ IsPermutation(Values(rank_'[s]))
               /\ saved_ranks'[s] = <<rank_'[s]>>
            \/ /\ page[s] = "points" /\ page'[s] = "likert"
               /\ SumSeq(Values(points_'[s])) = 100
               /\ saved_points'[s] = <<points_'[s]>>
            \/ /\ page[s] = "likert" /\ page'[s] = "results"
               /\ submitted'[s]
               /\ Len(buf[s]) >= NParams
               /\ log' = log \o buf[s]
            \/ /\ page'[s] = "home"
               /\ reset_all(s)
    ]_vars

\* A session that went through every page, submitted, and was reset.
C1_Witness == page[1] = "home" /\ results[1] # <<>> /\ Len(log) > NParams

\* C2: show_ranking goes to page points, keeping the submitted mapping as
\* saved_ranks, exactly when the mapping uses each of 1..5 once, and otherwise
\* stays on the ranking page with an error; validate_ranks accepts a list, over
\* None and any integers, exactly when it uses each of 1..5 once.
C2_RankingIff ==
    [][/\ \A s \in Sessions, r \in RankInputs :
            show_ranking(s, r) =>
                IF IsPermutation(Values(r))
                THEN page'[s] = "points" /\ saved_ranks'[s] = <<r>> /\ error'[s] = ""
                ELSE page'[s] = "ranking" /\ saved_ranks'[s] = saved_ranks[s] /\ error'[s] # ""
       /\ (call' # call /\ call'.fn = "validate_ranks") =>
            /\ (call'.ret = "") <=> IsPermutation(call'.arg)
            /\ call'.ret # "" => call'.ret \in
                   {"Please assign all rankings (1-5).",
                    "Rankings must be unique: assign 1..5 without repetitions.",
                    "Rankings must cover exactly the values 1,2,3,4,5."}
    ]_vars

\* A ranking accepted by the form, and a list of five distinct values, one of
\* them outside 1..5, rejected by validate_ranks.
C2_Witness ==
    /\ page[1] = "points" /\ saved_ranks[1] = <<Identity>>
    /\ call.fn = "validate_ranks" /\ call.ret # ""
    /\ Cardinality(Elems(call.arg)) = NParams /\ None \notin Elems(call.arg)

\* The sum of the values, each truncated toward zero to an integer.
TruncatedSum(q) ==
    SumSeq([i \in 1..Len(q) |-> IF q[i] >= 0 THEN q[i] \div Scale ELSE -((-q[i]) \div Scale)])

Numeric(q) == \A i \in 1..Len(q) : q[i] # None

Appended == SubSeq(log', Len(log) + 1, Len(log'))
DataRows(q) == SelectSeq(q, LAMBDA row : row # fieldnames)
SubmissionIds(q) == {q[i][1] : i \in {j \in 1..Len(q) : q[j] # fieldnames}}

\* A step of session s in which save_submission_to_csv returns (everything it
\* wrote has reached the file) / raises.
SaveReturns(s) == pc[s] = "close" /\ pc'[s] = "idle" /\ log' = log \o buf[s]
SaveRaises(s) == pc[s] # "idle" /\ pc'[s] = "idle" /\ ~SaveReturns(s)

\* C4: a likert form with a rating unset is refused with "Please complete all
\* Likert ratings." and nothing is appended; a submit whose save returns has
\* appended, after the rows the file had, exactly one data row per Parameter, in
\* PARAMETERS order, all with one submission_id that no earlier row has and all
\* with one timestamp.
C4_SubmitBatch ==
    [][\A s \in Sessions :
        /\ \A l \in LikertInputs \cup {UnsetLikert} :
              (show_likert(s, l) /\ \E p \in Params : l[p] = None) =>
                  /\ error'[s] = "Please complete all Likert ratings."
                  /\ pc'[s] = "idle" /\ page'[s] = "likert" /\ ~submitted'[s]
                  /\ log' = log /\ file_exists' = file_exists
        /\ SaveReturns(s) =>
              LET data == DataRows(Appended)
              IN  /\ page'[s] = "results" /\ submitted'[s] /\ error'[s] = ""
                  /\ SubSeq(log', 1, Len(log)) = log
                  /\ Len(data) = NParams
                  /\ \A i \in 1..NParams :
                        /\ data[i][3] = PARAMETERS[i]
                        /\ data[i][1] = data[1][1]
                        /\ data[i][2] = data[1][2]
                  /\ data[1][1] \notin SubmissionIds(log)
    ]_vars

\* A batch stored by a first pass of the session, and, on its second pass, the
\* likert form refused for an unset rating.
C4_Witness ==
    /\ results[1] # <<>> /\ Len(DataRows(log)) = NParams /\ Len(log) = NParams + 1
    /\ page[1] = "likert" /\ error[1] = "Please complete all Likert ratings."

\* C5: a form that fails validation leaves the page as it was and sets an error;
\* the values submitted stay in the widgets, the other widgets, saved_ranks,
\* saved_points, submitted and results are unchanged, and the file is untouched.
C5_FailureSelfLoop ==
    [][\A s \in Sessions :
        LET Refused ==
                /\ page'[s] = page[s]
                /\ error'[s] # ""
                /\ pc'[s] = "idle"
                /\ saved_ranks'[s] = saved_ranks[s] /\ saved_points'[s] = saved_points[s]
                /\ submitted'[s] = submitted[s] /\ results'[s] = results[s]
                /\ log' = log /\ file_exists' = file_exists
        IN  /\ \A r \in RankInputs :
                  (show_ranking(s, r) /\ ~IsPermutation(Values(r))) =>
                      /\ Refused
                      /\ rank_'[s] = r /\ points_'[s] = points_[s] /\ likert_'[s] = likert_[s]
            /\ \A pt \in PointInputs :
                  (show_points(s, pt) /\ SumSeq(Values(pt)) # 100) =>
                      /\ Refused
                      /\ points_'[s] = pt /\ rank_'[s] = rank_[s] /\ likert_'[s] = likert_[s]
            /\ \A l \in LikertInputs \cup {UnsetLikert} :
                  (show_likert(s, l) /\ \E p \in Params : l[p] = None) =>
                      /\ Refused
                      /\ likert_'[s] = l /\ rank_'[s] = rank_[s] /\ points_'[s] = points_[s]
    ]_vars

\* Points refused after a ranking was accepted: the ranking snapshot is there, no
\* points snapshot is.
C5_Witness ==
    /\ page[1] = "points" /\ error[1] = "The sum of points must be 100 (now: 99)."
    /\ points_[1] = [Even EXCEPT !["Rotation"] = 19]
    /\ saved_ranks[1] = <<Identity>> /\ saved_points[1] = <<>>

FailMsgs == {"Failed to save submission: " \o e : e \in OpenErrors \cup WriteErrors}

\* C6: when save_submission_to_csv raises, the session stays on page likert, not
\* submitted, with a "Failed to save submission" error, and saved_ranks,
\* saved_points and the likert values are unchanged; when a later submit of that
\* session is saved, its results carry the rank and points of the failed batch and
\* the likert values submitted (the whole failed batch when those are the same),
\* and these are the rows appended.
C6_FailureThenRetry ==
    [][\A s \in Sessions :
        /\ SaveRaises(s) =>
              /\ page[s] = "likert" /\ page'[s] = "likert"
              /\ ~submitted'[s]
              /\ error'[s] \in FailMsgs
              /\ saved_ranks'[s] = saved_ranks[s] /\ saved_points'[s] = saved_points[s]
              /\ likert_'[s] = likert_[s]
              /\ lost'[s] = batch[s] /\ lost'[s] # <<>>
        /\ (SaveReturns(s) /\ lost[s] # <<>>) =>
              /\ Len(results'[s]) = NParams
              /\ \A i \in 1..NParams :
                    /\ results'[s][i].parameter_label = lost[s][i].parameter_label
                    /\ results'[s][i].rank = lost[s][i].rank
                    /\ results'[s][i].points = lost[s][i].points
                    /\ results'[s][i].likert = likert_[s][PARAMETERS[i]]
              /\ (\A i \in 1..NParams : lost[s][i].likert = likert_[s][PARAMETERS[i]])
                    => results'[s] = lost[s]
              /\ LET data == DataRows(Appended)
                 IN  /\ Len(data) = NParams
                     /\ \A i \in 1..NParams :
                           <<data[i][3], data[i][4], data[i][5], data[i][6]>> =
                               <<results'[s][i].parameter_label, ToString(results'[s][i].rank),
                                 ToString(results'[s][i].points), ToString(results'[s][i].likert)>>
    ]_vars

\* A submit that failed and was then repeated with the same ratings and saved.
C6_Witness ==
    /\ submitted[1] /\ page[1] = "results" /\ error[1] = ""
    /\ lost[1] # <<>> /\ results[1] = lost[1]
    /\ lost[1][1].likert = 7

\* C7: a save that raises leaves the file as it was: no header and no row of the
\* batch has been added.
C7_AllOrNothing ==
    [][\A s \in Sessions : SaveRaises(s) => log' = log]_vars

\* The rows of each submission_id are next to one another.
Contiguous(q) ==
    \A i, k \in 1..Len(q) :
        (i < k /\ q[i][1] = q[k][1]) => \A j \in i..k : q[j][1] = q[i][1]

\* C8: whatever the interleaving of the sessions' saves (none of which raised),
\* the rows of a batch are next to one another and the header is in the file once,
\* as its first row.
C8_BatchExclusive ==
    (\A s \in Sessions : lost[s] = <<>>) =>
        /\ Contiguous(log)
        /\ \A i \in 1..Len(log) : (log[i] = fieldnames) <=> (i = 1)

\* The rows of q that carry the submission_id id.
RowsOf(q, id) == SelectSeq(q, LAMBDA row : row # fieldnames /\ row[1] = id)

\* C9: every submission_id in the file has one row per Parameter: the
\* parameter_label values of its rows are PARAMETERS, each once.
C9_OneRowPerParameter ==
    \A id \in SubmissionIds(log) :
        LET rows == RowsOf(log, id)
        IN  /\ Len(rows) = NParams
            /\ \A p \in Params : Cardinality({i \in 1..Len(rows) : rows[i][3] = p}) = 1

\* The int that a cell of the file is the str() of.
int_of(txt) == CHOOSE n \in 0..100 : ToString(n) = txt

\* The rows a step of session s appends carry, for each Parameter they cover, the
\* rank and points of saved_ranks and saved_points, whatever the widgets hold.
CarriedValuesStored ==
    [][\A s \in Sessions :
        (pc[s] = "close" /\ log' # log) =>
            /\ saved_ranks[s] # <<>> /\ saved_points[s] # <<>>
            /\ \A i \in 1..Len(Appended) :
                  Appended[i] # fieldnames =>
                      /\ Appended[i][4] = ToString(saved_ranks[s][1][Appended[i][3]])
                      /\ Appended[i][5] = ToString(saved_points[s][1][Appended[i][3]])
    ]_vars

\* Every submission_id in the file has ranks that are a permutation of 1..5 and
\* points that sum to 100.
StoredSubmissionsValid ==
    \A id \in SubmissionIds(log) :
        LET rows == RowsOf(log, id)
        IN  /\ IsPermutation([i \in 1..Len(rows) |-> int_of(rows[i][4])])
            /\ SumSeq([i \in 1..Len(rows) |-> int_of(rows[i][5])]) = 100

\* C10: the rank and points of every row written are those of the snapshots
\* validated at the ranking and points steps, whatever the widgets hold since, so
\* that every submission_id in the file has ranks that are a permutation of 1..5
\* and points that sum to 100.
C10_ValidatedValuesStored ==
    [][\A s \in Sessions :
        /\ (pc[s] = "close" /\ log' # log) =>
              /\ saved_ranks[s] # <<>> /\ saved_points[s] # <<>>
              /\ \A i \in 1..Len(Appended) :
                    Appended[i] # fieldnames =>
                        /\ Appended[i][4] = ToString(saved_ranks[s][1][Appended[i][3]])
                        /\ Appended[i][5] = ToString(saved_points[s][1][Appended[i][3]])
        /\ StoredSubmissionsValid'
    ]_vars

\* C11: reset_all, from any state of a session, gives page home, no error, not
\* submitted, no saved_ranks and no saved_points, and every widget key at its
\* default (rank 1, points 0, likert 4); the file is as it was.
C11_ResetDefaults ==
    [][\A s \in Sessions :
        reset_all(s) =>
            /\ page'[s] = "home" /\ error'[s] = "" /\ ~submitted'[s]
            /\ saved_ranks'[s] = <<>> /\ saved_points'[s] = <<>>
            /\ \A p \in Params : rank_'[s][p] = 1 /\ points_'[s][p] = 0 /\ likert_'[s][p] = 4
            /\ log' = log /\ file_exists' = file_exists
    ]_vars

\* A session reset after a save that failed part-way: it is back at the start and
\* the rows written stay in the file.
C11_Witness ==
    /\ page[1] = "home" /\ error[1] = "" /\ saved_ranks[1] = <<>> /\ saved_points[1] = <<>>
    /\ results[1] = <<>> /\ Len(log) > 1

\* The rows of the file for the batch res under submission_id id and timestamp ts.
BatchRows(id, ts, res) == [i \in 1..Len(res) |-> csv_row(id, ts, res[i])]

\* The timestamps utcnow() can have produced.
Timestamps == {iso_z(c) : c \in 0..clock}

\* C12: a session that is submitted has no error, is on page results and holds
\* the batch of its submission, one result per Parameter, and the file holds the
\* rows of that batch under one submission_id and one timestamp.
C12_SubmittedMeans ==
    \A s \in Sessions :
        submitted[s] =>
            /\ error[s] = "" /\ page[s] = "results"
            /\ Len(results[s]) = NParams
            /\ \A i \in 1..NParams : results[s][i].parameter_label = PARAMETERS[i]
            /\ \E id \in SubmissionIds(log), ts \in Timestamps :
                  RowsOf(log, id) = BatchRows(id, ts, results[s])

\* A session submitted at its second attempt, after a save that failed.
C12_Witness ==
    /\ submitted[1] /\ lost[1] # <<>>
    /\ Cardinality(SubmissionIds(log)) = 2

\* C13: while the file is missing or of size 0, show_admin displays no row; the
\* append that finds it so writes the header before its rows; and when appends
\* do not overlap, a file that is not empty has the header as its first row and
\* nowhere else.
C13_HeaderOnce ==
    [][/\ (show_admin /\ log = <<>>) => admin'.rows = <<>>
       /\ (log = <<>> /\ log' # <<>>) => log'[1] = fieldnames
       /\ \A i \in 1..Len(log') : (log'[i] = fieldnames) <=> (i = 1)
    ]_vars

\* A file left at size 0 by a save that failed, read by show_admin, then
\* initialised by the next append.
C13_Witness ==
    /\ admin.view = "No submissions yet." /\ file_exists
    /\ lost[1] # <<>> /\ submitted[1]
    /\ Len(log) = NParams + 1 /\ log[1] = fieldnames /\ log[2][1] = uuid_str(2)

\* The record save_submission_to_csv is given for result r, each value with its
\* Python type: str for the three texts, int for rank, points and likert.
TypedRow(id, ts, r) ==
    [submission_id |-> py_str(id), timestamp_utc |-> py_str(ts),
     parameter_label |-> py_str(r.parameter_label),
     rank |-> py_int(r.rank), points |-> py_int(r.points), likert |-> py_int(r.likert)]

\* C14: what show_admin reads back for the batch a session has appended equals
\* what was appended, field by field, in value and in type: rank, points and
\* likert come back as int.
C14_RoundTrip ==
    \A s \in Sessions :
        (submitted[s] /\ admin.rows # <<>> /\ admin.rows = DictReader(log)) =>
            \E id \in SubmissionIds(log), ts \in Timestamps :
                \A i \in 1..NParams :
                    \E j \in 1..Len(admin.rows) : admin.rows[j] = TypedRow(id, ts, results[s][i])

\* C15: the file is append-only: at every step the rows it held are the first
\* rows it holds afterwards, and show_admin changes neither the file nor a
\* session.
C15_AppendOnly ==
    [][/\ Len(log') >= Len(log)
       /\ SubSeq(log', 1, Len(log)) = log
       /\ file_exists => file_exists'
       /\ show_admin => UNCHANGED <<sessionVars, saveVars, storeVars>>
    ]_vars

\* The administrator has read the file after the first submission, and a second
\* submission has been appended behind it.
C15_Witness ==
    /\ Cardinality(SubmissionIds(log)) = 2
    /\ admin.rows # <<>>
    /\ Len(admin.rows) < Len(DataRows(log))
    /\ \A j \in 1..Len(admin.rows) : admin.rows[j] = DictReader(log)[j]

\* C16: from home, Start leads to ranking, a ranking that is a permutation of
\* 1..5 leads to points, points that sum to 100 lead to likert, the likert form
\* starts the save, and a save that returns leads from likert to results with
\* exactly one new row per Parameter, all under one submission_id.
C16_EndToEnd ==
    [][/\ show_home(1) => page'[1] = "ranking" /\ log' = log
       /\ \A r \in RankInputs :
             (show_ranking(1, r) /\ IsPermutation(Values(r))) => page'[1] = "points" /\ log' = log
       /\ \A pt \in PointInputs :
             (show_points(1, pt) /\ SumSeq(Values(pt)) = 100) => page'[1] = "likert" /\ log' = log
       /\ \A l \in LikertInputs :
             show_likert(1, l) => page'[1] = "likert" /\ pc'[1] = "open" /\ log' = log
       /\ (pc[1] = "open" /\ pc'[1] = "close") => page'[1] = "likert" /\ log' = log
       /\ SaveReturns(1) =>
             /\ page[1] = "likert" /\ page'[1] = "results"
             /\ LET new == SubSeq(log', Len(log) + 1, Len(log'))
                IN  /\ Len(DataRows(new)) = NParams
                    /\ Cardinality(SubmissionIds(new)) = 1
                    /\ SubmissionIds(new) \cap SubmissionIds(log) = {}
    ]_vars

\* The first run through the questionnaire, nothing having failed: the file holds
\* the header and the five rows of the one submission.
C16_Witness ==
    /\ page[1] = "results" /\ lost[1] = <<>>
    /\ Len(log) = NParams + 1
    /\ SubmissionIds(log) = {uuid_str(1)}
    /\ results[1][1].likert = 4

\* C17: saved_ranks is in the session whenever its page is points, likert or
\* results, and saved_points whenever its page is likert or results, resets
\* included; show_likert never reads rank or points from the widget keys.
C17_SnapshotsPresent ==
    \A s \in Sessions :
        /\ page[s] \in {"points", "likert", "results"} => saved_ranks[s] # <<>>
        /\ page[s] \in {"likert", "results"} => saved_points[s] # <<>>
        /\ (\E l \in LikertInputs : ENABLED show_likert(s, l)) =>
              saved_ranks[s] # <<>> /\ saved_points[s] # <<>>

\* The likert page reached a second time, after a submission and a reset.
C17_Witness ==
    /\ page[1] = "likert" /\ results[1] # <<>> /\ ~submitted[1]
    /\ saved_ranks[1] # <<>> /\ saved_points[1] # <<>>

\* C18: a session on page results is submitted; the router never draws the
\* "Return to questionnaire" button.
C18_ResultsSubmitted ==
    \A s \in Sessions :
        /\ page[s] = "results" => submitted[s]
        /\ ~ENABLED return_to_questionnaire(s)

\* The results page after the script has run again: the widget keys of the forms
\* are back at their defaults and the session is still submitted.
C18_Witness ==
    /\ page[1] = "results" /\ submitted[1]
    /\ likert_[1] = DefaultLikert /\ results[1][1].likert = 7

====
